---- MODULE Spec2Model ----
(***************************************************************************)
(* StyleAI backend (src/app.py, src/database.py): the users /               *)
(* fashion_profiles / ai_recommendations store, the client-held session,   *)
(* the auth endpoints, the history endpoint and the four generation        *)
(* endpoints with the completion client they call.                         *)
(*                                                                         *)
(* Conventions.  Text that the code trims is a sequence of one-character   *)
(* strings, so that str.strip() is computed and not assumed.  SQL NULL in  *)
(* a TEXT column is NULL; Python None / SQL NULL in an integer id column   *)
(* is None (0: AUTOINCREMENT ids start at 1).  A row's id is its index in  *)
(* its table: ids are assigned in insertion order and no code path of the  *)
(* repository deletes or updates a row.                                    *)
(***************************************************************************)
EXTENDS Integers, Sequences, FiniteSets, TLC

VARIABLES
    users,      \* table users: <<[name, phone, email, password]>>
    profiles,   \* table fashion_profiles
    recs,       \* table ai_recommendations
    uploads,    \* static/uploads: file name -> client whose bytes it holds
    session,    \* per client: the signed cookie session (a dict)
    key,        \* GROQ_KEY is configured
    now,        \* the store's CURRENT_TIMESTAMP, in seconds
    pc,         \* per client: position of its in-flight handler
    loc,        \* per client: locals of its in-flight handler
    resp,       \* the response most recently sent
    net,        \* the external completion calls made by the handler that sent it
    log         \* the lines that handler printed

vars == <<users, profiles, recs, uploads, session, key, now, pc, loc, resp, net, log>>

-----------------------------------------------------------------------------
(* Bounds                                                                  *)

MaxUsers    == 2     \* rows of users
MaxRecs     == 1     \* rows of ai_recommendations
MaxProfiles == 1     \* rows of fashion_profiles
MaxTime     == 1     \* seconds the store's clock advances
MaxHistRecs == 2     \* rows of ai_recommendations, where history is read
MaxUploadRows == 2   \* rows of each table, where styling requests interleave

\* The tables and the clock stay within the bounds after a step.
Bounded ==
    /\ Len(users') <= MaxUsers
    /\ Len(recs') <= MaxRecs
    /\ Len(profiles') <= MaxProfiles
    /\ now' <= MaxTime

BoundedHist ==
    /\ Len(users') <= MaxUsers
    /\ Len(recs') <= MaxHistRecs
    /\ now' <= MaxTime

BoundedUpload ==
    /\ Len(recs') <= MaxUploadRows
    /\ Len(profiles') <= MaxUploadRows

Clients == {1, 2}

-----------------------------------------------------------------------------
(* Values                                                                  *)

NULL == <<"NULL">>
None == 0

NameIn  == {<<"A">>, <<" ", "B">>}
IdentIn == {<<>>, <<"x", " ">>, <<"y">>}
PwIn    == {"", "p", "q"}

IsSpace(ch) == ch \in {" ", "\n", "\t"}

RECURSIVE lstrip(_)
lstrip(s) ==
    IF s # <<>> /\ IsSpace(Head(s)) THEN lstrip(Tail(s)) ELSE s

RECURSIVE rstrip(_)
rstrip(s) ==
    IF s # <<>> /\ IsSpace(s[Len(s)]) THEN rstrip(SubSeq(s, 1, Len(s) - 1)) ELSE s

\* str.strip()
strip(s) == rstrip(lstrip(s))

\* `x or None` on a string
OrNone(s) == IF s = <<>> THEN NULL ELSE s

\* hashlib.sha256(pw.encode()).hexdigest(): a digest, never the password
\* itself; distinct passwords of the corpus have distinct digests.
hashpw(pw) == [sha256 |-> pw]

-----------------------------------------------------------------------------
(* The session dict                                                        *)

NoSession == [user_id |-> None, user_name |-> <<>>]

\* session.get("user_id")
SessionUid(s) == s.user_id

-----------------------------------------------------------------------------
(* users                                                                   *)

\* (a store whose email column is not UNIQUE)
unique_phone_only(us, phone, email) ==
    \E i \in 1..Len(us) : phone # NULL /\ us[i].phone = phone
\* The UNIQUE constraints of columns phone and email: a NULL never
\* conflicts.
UniqueViolation(us, phone, email) ==
    \E i \in 1..Len(us) :
        \/ phone # NULL /\ us[i].phone = phone
        \/ email # NULL /\ us[i].email = email

UserRow(name, phone, email, pwhash) ==
    [name |-> name, phone |-> phone, email |-> email, password |-> pwhash]

\* (a query that compares the phone column alone)
login_match_phone_only(us, ident, pwhash) ==
    {i \in 1..Len(us) : us[i].phone = ident /\ us[i].password = pwhash}
\* SELECT * FROM users WHERE (phone=? OR email=?) AND password=?
LoginMatches(us, ident, pwhash) ==
    {i \in 1..Len(us) :
        (us[i].phone = ident \/ us[i].email = ident) /\ us[i].password = pwhash}


-----------------------------------------------------------------------------
(* Responses                                                               *)

Response(c, op, status, body) ==
    [client |-> c, op |-> op, status |-> status, body |-> body]

Fail(msg) == [success |-> FALSE, message |-> msg]

PhoneOrEmailRequired == "Phone or email required"
PasswordRequired     == "Password required"
AlreadyRegistered    == "Phone/email already registered"
InvalidCredentials   == "Invalid credentials"
NotLoggedIn          == "Not logged in"

Idle == [c \in Clients |-> "idle"]
NoLocals == [c \in Clients |-> [op |-> "none"]]

-----------------------------------------------------------------------------
(* Auth endpoints (each handler runs one statement against the store, so   *)
(* it is one step)                                                         *)

\* The two checks made before the store is touched.
signup_validate(phone, email, pw) ==
    IF phone = <<>> /\ email = <<>> THEN PhoneOrEmailRequired
    ELSE IF pw = "" THEN PasswordRequired
    ELSE "ok"

\* The outcome of the signup handler on the current store: the response,
\* and the row its INSERT adds unless a UNIQUE constraint refuses it.
signup(c, name0, phone0, email0, pw) ==
    LET name  == strip(name0)
        phone == strip(phone0)
        email == strip(email0)
        v     == signup_validate(phone, email, pw)
    IN  IF v # "ok"
        THEN [ok |-> FALSE, resp |-> Response(c, "signup", 400, Fail(v))]
        ELSE IF UniqueViolation(users, OrNone(phone), OrNone(email))
        THEN [ok |-> FALSE, resp |-> Response(c, "signup", 400, Fail(AlreadyRegistered))]
        ELSE [ok |-> TRUE,
              row |-> UserRow(name, OrNone(phone), OrNone(email), hashpw(pw)),
              resp |-> Response(c, "signup", 200, [success |-> TRUE, name |-> name])]

Signup(c, name0, phone0, email0, pw) ==
    LET r == signup(c, name0, phone0, email0, pw) IN
    /\ pc[c] = "idle"
    /\ IF r.ok
       THEN /\ users' = Append(users, r.row)
            /\ session' = [session EXCEPT ![c] =
                              [user_id |-> Len(users) + 1, user_name |-> r.row.name]]
       ELSE UNCHANGED <<users, session>>
    /\ resp' = r.resp
    /\ net' = <<>>
    /\ log' = <<>>
    /\ UNCHANGED <<profiles, recs, uploads, key, now, pc, loc>>

\* session after a login that fetched row i
login_session(s, i, ident) ==
    [user_id |-> i,
     user_name |-> IF users[i].name # <<>> /\ users[i].name # NULL
                   THEN users[i].name ELSE ident]

\* fetchone() on a query without ORDER BY: any of the matching rows.
Login(c, ident0, pw) ==
    LET ident == strip(ident0)
        M     == LoginMatches(users, ident, hashpw(pw))
    IN  /\ pc[c] = "idle"
        /\ IF M # {}
           THEN \E i \in M :
                    /\ session' = [session EXCEPT ![c] = login_session(session[c], i, ident)]
                    /\ resp' = Response(c, "login", 200,
                                        [success |-> TRUE, name |-> users[i].name])
           ELSE /\ resp' = Response(c, "login", 401, Fail(InvalidCredentials))
                /\ UNCHANGED session
        /\ net' = <<>>
        /\ log' = <<>>
        /\ UNCHANGED <<users, profiles, recs, uploads, key, now, pc, loc>>

\* (a logout that leaves the session)
logout_keep(s) == s
\* session.clear()
logout(s) == NoSession

Logout(c) ==
    /\ pc[c] = "idle"
    /\ session' = [session EXCEPT ![c] = logout(session[c])]
    /\ resp' = Response(c, "logout", 200, [success |-> TRUE])
    /\ net' = <<>>
    /\ log' = <<>>
    /\ UNCHANGED <<users, profiles, recs, uploads, key, now, pc, loc>>

ApiMe(c) ==
    LET uid == SessionUid(session[c]) IN
    /\ pc[c] = "idle"
    /\ resp' = IF uid = None \/ uid \notin 1..Len(users)
               THEN Response(c, "me", 200, [logged_in |-> FALSE])
               ELSE Response(c, "me", 200,
                             [logged_in |-> TRUE,
                              user |-> [id |-> uid, name |-> users[uid].name,
                                        phone |-> users[uid].phone,
                                        email |-> users[uid].email]])
    /\ net' = <<>>
    /\ log' = <<>>
    /\ UNCHANGED <<users, profiles, recs, uploads, session, key, now, pc, loc>>

-----------------------------------------------------------------------------
(* Markdown stripper                                                       *)

NoNewline(s) == \A k \in 1..Len(s) : s[k] # "\n"

\* re.sub(r"\*\*(.+?)\*\*", r"\1", text): leftmost matches, each as short
\* as possible, never overlapping.
RECURSIVE SubBold(_)
SubBold(s) ==
    IF s = <<>> THEN <<>>
    ELSE LET K == {k \in 1..(Len(s) - 4) :
                      /\ s[1] = "*" /\ s[2] = "*"
                      /\ s[k + 3] = "*" /\ s[k + 4] = "*"
                      /\ NoNewline(SubSeq(s, 3, k + 2))}
         IN  IF K # {}
             THEN LET k == CHOOSE x \in K : \A y \in K : x <= y
                  IN  SubSeq(s, 3, k + 2) \o SubBold(SubSeq(s, k + 5, Len(s)))
             ELSE <<Head(s)>> \o SubBold(Tail(s))

\* re.sub(r"\*(.+?)\*", r"\1", text)
RECURSIVE SubItalic(_)
SubItalic(s) ==
    IF s = <<>> THEN <<>>
    ELSE LET K == {k \in 1..(Len(s) - 2) :
                      /\ s[1] = "*"
                      /\ s[k + 2] = "*"
                      /\ NoNewline(SubSeq(s, 2, k + 1))}
         IN  IF K # {}
             THEN LET k == CHOOSE x \in K : \A y \in K : x <= y
                  IN  SubSeq(s, 2, k + 1) \o SubItalic(SubSeq(s, k + 3, Len(s)))
             ELSE <<Head(s)>> \o SubItalic(Tail(s))

strip_md(text) == strip(SubItalic(SubBold(text)))

-----------------------------------------------------------------------------
(* Completion client                                                       *)

Advisory == <<"GROQ_API_KEY not set. Add it to your .env file and restart.">>
TimedOut == <<"Request timed out. Please try again.">>
ApiError(e) == <<"API Error: ", e>>

\* What the external service answers: to a text request, to a vision
\* request.  "ok" carries a reply with markdown emphasis; the other
\* outcomes are a requests.Timeout, an HTTP error status (or a reply
\* without choices[0].message.content: the same except clause), and
\* (vision) an image that cannot be read.
\* The reply depends on the prompt: on its template and, for the styling
\* report, on whether the photo clause is in it.
PromptTag(prompt) ==
    IF prompt.kind = "outfit" /\ prompt.has_photo THEN <<"outfit", "+", "photo">>
    ELSE <<prompt.kind>>
PromptTags == {<<"outfit">>, <<"outfit", "+", "photo">>, <<"pitch">>,
               <<"lead_score">>, <<"campaign">>}
TextContent(tag)   == <<"*", "*", "T", "*", "*", " ">> \o tag \o <<"\n">>
VisionContent(tag) == <<" ", "*", "V", "*", " ">> \o tag

\* strip_md(r.json()["choices"][0]["message"]["content"]), per prompt
TextReply   == [tag \in PromptTags |-> strip_md(TextContent(tag))]
VisionReply == [tag \in PromptTags |-> strip_md(VisionContent(tag))]
TextOutcomes   == {"ok", "timeout", "http_error"}
VisionOutcomes == {"ok", "timeout", "http_error", "unreadable"}

VisionFailed == "Vision failed, falling back to text"
DbError      == "DB error"
Traceback    == "Traceback"

\* (a call_text that asks the service without a credential)
call_text_no_key_check(prompt, to) ==
    IF to = "ok"
    THEN [text |-> TextReply[PromptTag(prompt)], raised |-> FALSE,
          calls |-> <<"text">>, log |-> <<>>]
    ELSE IF to = "timeout"
    THEN [text |-> TimedOut, raised |-> FALSE, calls |-> <<"text">>, log |-> <<>>]
    ELSE [text |-> ApiError(to), raised |-> FALSE, calls |-> <<"text">>, log |-> <<>>]
\* (a call_text that returns None when the service fails)
call_text_none_on_error(prompt, to) ==
    IF ~key THEN [text |-> Advisory, raised |-> FALSE, calls |-> <<>>, log |-> <<>>]
    ELSE IF to = "ok"
    THEN [text |-> TextReply[PromptTag(prompt)], raised |-> FALSE,
          calls |-> <<"text">>, log |-> <<>>]
    ELSE [text |-> NULL, raised |-> FALSE, calls |-> <<"text">>, log |-> <<>>]
\* (a call_text without its except clauses)
call_text_raises(prompt, to) ==
    IF ~key THEN [text |-> Advisory, raised |-> FALSE, calls |-> <<>>, log |-> <<>>]
    ELSE IF to = "ok"
    THEN [text |-> TextReply[PromptTag(prompt)], raised |-> FALSE,
          calls |-> <<"text">>, log |-> <<>>]
    ELSE [text |-> <<>>, raised |-> TRUE, calls |-> <<"text">>, log |-> <<>>]
\* call_text(prompt) when the service answers `to`: the text returned,
\* whether an exception leaves the function, the external calls made, the
\* lines printed.
call_text(prompt, to) ==
    IF ~key THEN [text |-> Advisory, raised |-> FALSE, calls |-> <<>>, log |-> <<>>]
    ELSE IF to = "ok"
    THEN [text |-> TextReply[PromptTag(prompt)], raised |-> FALSE,
          calls |-> <<"text">>, log |-> <<>>]
    ELSE IF to = "timeout"
    THEN [text |-> TimedOut, raised |-> FALSE, calls |-> <<"text">>, log |-> <<>>]
    ELSE [text |-> ApiError(to), raised |-> FALSE, calls |-> <<"text">>, log |-> <<>>]

\* (a call_vision that reports its failure itself)
call_vision_no_fallback(prompt, img, vo, to) ==
    IF ~key THEN [text |-> Advisory, raised |-> FALSE, calls |-> <<>>, log |-> <<>>]
    ELSE IF vo = "ok"
    THEN [text |-> VisionReply[PromptTag(prompt)], raised |-> FALSE,
          calls |-> <<"vision">>, log |-> <<>>]
    ELSE [text |-> ApiError(vo), raised |-> FALSE,
          calls |-> IF vo = "unreadable" THEN <<>> ELSE <<"vision">>, log |-> <<>>]
\* call_vision(prompt, img_path): every exception of the vision attempt,
\* a timeout included, is answered by call_text(prompt).  An image that
\* cannot be read fails before the request is sent.
call_vision(prompt, img, vo, to) ==
    IF ~key THEN [text |-> Advisory, raised |-> FALSE, calls |-> <<>>, log |-> <<>>]
    ELSE IF vo = "ok"
    THEN [text |-> VisionReply[PromptTag(prompt)], raised |-> FALSE,
          calls |-> <<"vision">>, log |-> <<>>]
    ELSE LET t == call_text(prompt, to)
         IN  [text |-> t.text, raised |-> t.raised,
              calls |-> (IF vo = "unreadable" THEN <<>> ELSE <<"vision">>) \o t.calls,
              log |-> <<VisionFailed>> \o t.log]

-----------------------------------------------------------------------------
(* Upload handler                                                          *)

ALLOWED == {<<"p","n","g">>, <<"j","p","g">>, <<"j","p","e","g">>,
            <<"w","e","b","p">>, <<"g","i","f">>}

Lower(ch) ==
    CASE ch = "P" -> "p" [] ch = "N" -> "n" [] ch = "G" -> "g"
      [] ch = "J" -> "j" [] ch = "E" -> "e" [] ch = "X" -> "x"
      [] OTHER -> ch

lower(s) == [k \in 1..Len(s) |-> Lower(s[k])]

\* name.rsplit(".", 1)[1]
Extension(name) ==
    LET dots == {k \in 1..Len(name) : name[k] = "."}
        last == CHOOSE k \in dots : \A j \in dots : j <= k
    IN  SubSeq(name, last + 1, Len(name))

\* (an ok_file that accepts every extension)
ok_file_any_extension(name) == \E k \in 1..Len(name) : name[k] = "."
ok_file(name) ==
    /\ \E k \in 1..Len(name) : name[k] = "."
    /\ lower(Extension(name)) \in ALLOWED

\* werkzeug's secure_filename: path separators become blanks, runs of
\* blanks become one underscore, characters outside [A-Za-z0-9_.-] are
\* dropped, surrounding dots and underscores are stripped.
SepToSpace(s) == [k \in 1..Len(s) |-> IF s[k] \in {"/", "\\"} THEN " " ELSE s[k]]
RECURSIVE JoinBlanks(_)
JoinBlanks(s) ==
    IF s = <<>> THEN <<>>
    ELSE IF IsSpace(Head(s))
    THEN <<"_">> \o JoinBlanks(lstrip(s))
    ELSE <<Head(s)>> \o JoinBlanks(Tail(s))
SafeChar(ch) == ch \notin {"$", "!", "~"}
RECURSIVE KeepSafe(_)
KeepSafe(s) ==
    IF s = <<>> THEN <<>>
    ELSE IF SafeChar(Head(s)) THEN <<Head(s)>> \o KeepSafe(Tail(s))
    ELSE KeepSafe(Tail(s))
RECURSIVE StripDots(_)
StripDots(s) ==
    IF s # <<>> /\ Head(s) \in {".", "_"} THEN StripDots(Tail(s))
    ELSE IF s # <<>> /\ s[Len(s)] \in {".", "_"} THEN StripDots(SubSeq(s, 1, Len(s) - 1))
    ELSE s
secure_filename(name) == StripDots(KeepSafe(JoinBlanks(strip(SepToSpace(name)))))

\* The files a request attaches: request.files.get("photo")
NoPhoto  == [present |-> FALSE, filename |-> <<>>, data |-> "none"]
PhotoPng == [present |-> TRUE, filename |-> <<"a", ".", "P", "N", "G">>, data |-> "img1"]
PhotoExe == [present |-> TRUE, filename |-> <<"b", ".", "e", "x", "e">>, data |-> "img2"]
PhotoNoExt == [present |-> TRUE, filename |-> <<"n", "o", "e", "x", "t">>, data |-> "img3"]
PhotoIn  == {NoPhoto, PhotoPng, PhotoExe, PhotoNoExt}

\* photo and photo.filename and ok_file(photo.filename)
photo_accepted ==
    [photo \in PhotoIn |->
        photo.present /\ photo.filename # <<>> /\ ok_file(photo.filename)]

\* os.path.join(UPLOAD_FOLDER, secure_filename(photo.filename)), as the
\* name under the uploads folder
upload_path == [photo \in PhotoIn |-> secure_filename(photo.filename)]

-----------------------------------------------------------------------------
(* Store writes of the generation endpoints                                *)

\* request.form.get(k, default), request.form a dict
FormGet(form, k, default) == IF k \in DOMAIN form THEN form[k] ELSE default

NoForm == [k \in {} |-> <<>>]

RecRow(uid, pid, rtype, text) ==
    [user_id |-> uid, profile_id |-> pid, request_type |-> rtype,
     ai_response |-> text, created_at |-> now]

\* (a save_rec without its except clause)
save_rec_raises(uid, pid, rtype, text, ok) ==
    IF ok THEN [recs |-> Append(recs, RecRow(uid, pid, rtype, text)),
                raised |-> FALSE, log |-> <<>>]
    ELSE [recs |-> recs, raised |-> TRUE, log |-> <<>>]
\* (a save_rec that drops the user id)
save_rec_anonymous(uid, pid, rtype, text, ok) ==
    IF ok THEN [recs |-> Append(recs, RecRow(None, pid, rtype, text)),
                raised |-> FALSE, log |-> <<>>]
    ELSE [recs |-> recs, raised |-> FALSE, log |-> <<DbError>>]
\* save_rec: the INSERT either commits the row (ok) or fails; the failure
\* is printed and swallowed.
save_rec(uid, pid, rtype, text, ok) ==
    IF ok THEN [recs |-> Append(recs, RecRow(uid, pid, rtype, text)),
                raised |-> FALSE, log |-> <<>>]
    ELSE [recs |-> recs, raised |-> FALSE, log |-> <<DbError>>]

ErrorText(e) == <<"Error: ", e, ". Please try again.">>
PleaseEnterPitch    == <<"Please enter an outfit or collection description.">>
PleaseEnterCampaign == <<"Please enter a product or collection name.">>

\* An exception that leaves a handler: Flask answers 500.
Unhandled(c, op) == Response(c, op, 500, [error |-> "Internal Server Error"])

\* What a handler did: its response, the tables and the uploads folder as
\* it leaves them, the external calls it made, the lines it printed.
Outcome(r, up, pr, rc, calls, lines) ==
    [resp |-> r, uploads |-> up, profiles |-> pr, recs |-> rc,
     net |-> calls, log |-> lines]

-----------------------------------------------------------------------------
(* Generation endpoints.  po, pr, ro: the photo write, the profile write,  *)
(* the recommendation write succeed; vo, to: what the external service     *)
(* answers to a vision request and to a text request.                      *)

\* The styling-report prompt: the profile fields, and the photo clause
\* when a photo is attached.
outfit_prompt(form, has_photo) ==
    [kind |-> "outfit", has_photo |-> has_photo,
     gender        |-> FormGet(form, "gender", "Not specified"),
     age           |-> FormGet(form, "age", "25"),
     size          |-> FormGet(form, "size", "M"),
     culture_style |-> FormGet(form, "culture_style", "Universal"),
     dress_style   |-> FormGet(form, "dress_style", "Casual")]

get_recommendation(c, form, photo, po, pr, vo, to, ro) ==
    LET uid           == SessionUid(session[c])
        gender        == FormGet(form, "gender", "Not specified")
        age           == FormGet(form, "age", "25")
        size          == FormGet(form, "size", "M")
        culture_style == FormGet(form, "culture_style", "Universal")
        dress_style   == FormGet(form, "dress_style", "Casual")
        has_photo     == photo_accepted[photo]
        photo_path    == IF has_photo THEN upload_path[photo] ELSE <<>>
        uploads1      == IF has_photo THEN (photo_path :> photo.data) @@ uploads
                         ELSE uploads
        profile_id    == IF uid # None THEN Len(profiles) + 1 ELSE None
        profiles1     == IF uid # None
                         THEN Append(profiles,
                                     [user_id |-> uid, gender |-> gender, age |-> age,
                                      size |-> size, culture_style |-> culture_style,
                                      dress_style |-> dress_style,
                                      photo_path |-> photo_path])
                         ELSE profiles
        prompt        == outfit_prompt(form, has_photo)
        comp          == IF has_photo THEN call_vision(prompt, photo_path, vo, to)
                         ELSE call_text(prompt, to)
        saved         == save_rec(uid, profile_id, "outfit", comp.text, ro)
        Caught(e)     == Response(c, "get_recommendation", 200, [result |-> ErrorText(e)])
    IN  IF has_photo /\ ~po
        THEN Outcome(Caught("upload"), uploads, profiles, recs, <<>>, <<Traceback>>)
        ELSE IF uid # None /\ ~pr
        THEN Outcome(Caught("profile"), uploads1, profiles, recs, <<>>, <<Traceback>>)
        ELSE IF comp.raised
        THEN Outcome(Caught("completion"), uploads1, profiles1, recs, comp.calls,
                     comp.log \o <<Traceback>>)
        ELSE IF saved.raised
        THEN Outcome(Caught("save"), uploads1, profiles1, saved.recs, comp.calls,
                     comp.log \o saved.log \o <<Traceback>>)
        ELSE Outcome(Response(c, "get_recommendation", 200,
                              [result |-> comp.text, photo_analyzed |-> has_photo]),
                     uploads1, profiles1, saved.recs, comp.calls, comp.log \o saved.log)

\* The part the three text-only endpoints share: the completion, the
\* best-effort write, the response.
TextEndpoint(c, op, rtype, prompt, to, ro) ==
    LET uid   == SessionUid(session[c])
        comp  == call_text(prompt, to)
        saved == save_rec(uid, None, rtype, comp.text, ro)
    IN  IF comp.raised
        THEN Outcome(Unhandled(c, op), uploads, profiles, recs, comp.calls, comp.log)
        ELSE IF saved.raised
        THEN Outcome(Unhandled(c, op), uploads, profiles, saved.recs, comp.calls,
                     comp.log \o saved.log)
        ELSE Outcome(Response(c, op, 200, [result |-> comp.text]),
                     uploads, profiles, saved.recs, comp.calls, comp.log \o saved.log)

\* (a generate_pitch without the check of its product)
generate_pitch_no_check(c, form, to, ro) ==
    TextEndpoint(c, "generate_pitch", "pitch",
                 [kind |-> "pitch", product |-> strip(FormGet(form, "product", <<>>)),
                  customer |-> <<"Fashion-forward individuals">>], to, ro)
generate_pitch(c, form, to, ro) ==
    LET product  == strip(FormGet(form, "product", <<>>))
        customer == strip(FormGet(form, "customer", <<>>))
        prompt   == [kind |-> "pitch", product |-> product,
                     customer |-> IF customer # <<>> THEN customer
                                  ELSE <<"Fashion-forward individuals">>]
    IN  IF product = <<>>
        THEN Outcome(Response(c, "generate_pitch", 200, [result |-> PleaseEnterPitch]),
                     uploads, profiles, recs, <<>>, <<>>)
        ELSE TextEndpoint(c, "generate_pitch", "pitch", prompt, to, ro)

lead_score(c, form, to, ro) ==
    LET prompt == [kind |-> "lead_score",
                   name    |-> FormGet(form, "name", <<"Customer">>),
                   budget  |-> FormGet(form, "budget", <<"Not specified">>),
                   need    |-> FormGet(form, "need", <<"Not specified">>),
                   urgency |-> FormGet(form, "urgency", <<"Not specified">>)]
    IN  TextEndpoint(c, "lead_score", "lead_score", prompt, to, ro)

generate_campaign(c, form, to, ro) ==
    LET product  == strip(FormGet(form, "product", <<>>))
        audience == strip(FormGet(form, "audience", <<>>))
        platform == strip(FormGet(form, "platform", <<"Instagram">>))
        prompt   == [kind |-> "campaign", product |-> product,
                     audience |-> IF audience # <<>> THEN audience
                                  ELSE <<"Fashion enthusiasts">>,
                     platform |-> platform]
    IN  IF product = <<>>
        THEN Outcome(Response(c, "generate_campaign", 200,
                              [result |-> PleaseEnterCampaign]),
                     uploads, profiles, recs, <<>>, <<>>)
        ELSE TextEndpoint(c, "generate_campaign", "campaign", prompt, to, ro)

\* A generation handler runs to its response.
Handle(c, o) ==
    /\ pc[c] = "idle"
    /\ resp' = o.resp
    /\ uploads' = o.uploads
    /\ profiles' = o.profiles
    /\ recs' = o.recs
    /\ net' = o.net
    /\ log' = o.log
    /\ UNCHANGED <<users, session, key, now, pc, loc>>

GetRecommendation(c, form, photo, po, pr, vo, to, ro) ==
    Handle(c, get_recommendation(c, form, photo, po, pr, vo, to, ro))

GeneratePitch(c, form, to, ro) == Handle(c, generate_pitch(c, form, to, ro))

LeadScore(c, form, to, ro) == Handle(c, lead_score(c, form, to, ro))

GenerateCampaign(c, form, to, ro) == Handle(c, generate_campaign(c, form, to, ro))

-----------------------------------------------------------------------------
(* History endpoint                                                        *)

HistoryLimit == 20

Take(s, n) == SubSeq(s, 1, IF Len(s) < n THEN Len(s) ELSE n)

\* SELECT ... WHERE user_id=? ORDER BY created_at DESC LIMIT 20: the ids of
\* the rows returned, in the order returned.  Rows with equal created_at
\* come in whatever order the store produces.
\* (a query without its WHERE clause)
history_all_rows(uid) ==
    {Take([k \in 1..Len(recs) |-> Len(recs) + 1 - k], HistoryLimit)}
history_query(uid) ==
    LET ids == {i \in 1..Len(recs) : recs[i].user_id = uid}
        n   == Cardinality(ids)
    IN  {Take(s, HistoryLimit) :
            s \in {t \in [1..n -> ids] :
                      /\ \A j, k \in 1..n : j # k => t[j] # t[k]
                      /\ \A k \in 1..(n - 1) :
                            recs[t[k]].created_at >= recs[t[k + 1]].created_at}}

HistoryItem(i) ==
    [id |-> i, request_type |-> recs[i].request_type,
     ai_response |-> recs[i].ai_response, created_at |-> recs[i].created_at]

\* the session check of api_history
history_allowed(uid) == uid # None

ApiHistory(c) ==
    LET uid == SessionUid(session[c]) IN
    /\ pc[c] = "idle"
    /\ IF ~history_allowed(uid)
       THEN resp' = Response(c, "history", 401, Fail(NotLoggedIn))
       ELSE \E rows \in history_query(uid) :
                resp' = Response(c, "history", 200,
                                 [success |-> TRUE,
                                  history |-> [k \in 1..Len(rows) |-> HistoryItem(rows[k])]])
    /\ net' = <<>>
    /\ log' = <<>>
    /\ UNCHANGED <<users, profiles, recs, uploads, session, key, now, pc, loc>>

\* The store's clock advances.
Tick ==
    /\ now' = now + 1
    /\ UNCHANGED <<users, profiles, recs, uploads, session, key, pc, loc, resp, net, log>>

-----------------------------------------------------------------------------
(* Signup as the steps of a request in flight: the handler has validated   *)
(* its input and has not yet run its INSERT.                               *)

SignupBegin(c, name0, phone0, email0, pw) ==
    LET v == signup_validate(strip(phone0), strip(email0), pw) IN
    /\ pc[c] = "idle"
    /\ IF v # "ok"
       THEN /\ resp' = Response(c, "signup", 400, Fail(v))
            /\ UNCHANGED <<pc, loc>>
       ELSE /\ pc' = [pc EXCEPT ![c] = "signup_insert"]
            /\ loc' = [loc EXCEPT ![c] = [op |-> "signup", name |-> name0, phone |-> phone0,
                                          email |-> email0, password |-> pw]]
            /\ UNCHANGED resp
    /\ UNCHANGED <<users, profiles, recs, uploads, session, key, now, net, log>>

SignupInsert(c) ==
    LET r == signup(c, loc[c].name, loc[c].phone, loc[c].email, loc[c].password) IN
    /\ pc[c] = "signup_insert"
    /\ IF r.ok
       THEN /\ users' = Append(users, r.row)
            /\ session' = [session EXCEPT ![c] =
                              [user_id |-> Len(users) + 1, user_name |-> r.row.name]]
       ELSE UNCHANGED <<users, session>>
    /\ resp' = r.resp
    /\ pc' = [pc EXCEPT ![c] = "idle"]
    /\ loc' = [loc EXCEPT ![c] = [op |-> "none"]]
    /\ net' = <<>>
    /\ log' = <<>>
    /\ UNCHANGED <<profiles, recs, uploads, key, now>>

-----------------------------------------------------------------------------
(* A styling request as the steps of a request in flight: the photo is     *)
(* saved, the profile is inserted, and then call_vision opens the file at  *)
(* the saved path, sends what it reads, and the handler writes the         *)
(* recommendation and answers.                                             *)

\* Photos that concurrent requests attach: two different images under one
\* file name, and one under a name of its own.
PhotoSameName == [present |-> TRUE, filename |-> <<"a", ".", "P", "N", "G">>, data |-> "img4"]
PhotoGif      == [present |-> TRUE, filename |-> <<"c", ".", "g", "i", "f">>, data |-> "img5"]
UploadIn      == {PhotoPng, PhotoSameName, PhotoGif}

\* os.path.join(UPLOAD_FOLDER, secure_filename(photo.filename))
upload_name == [photo \in UploadIn |-> secure_filename(photo.filename)]

\* the path the handler saves the photo under
saved_path(c, photo) == upload_name[photo]

\* photo.save(photo_path)
RecSavePhoto(c, photo) ==
    /\ pc[c] = "idle"
    /\ ok_file(photo.filename)
    /\ uploads' = (saved_path(c, photo) :> photo.data) @@ uploads
    /\ pc' = [pc EXCEPT ![c] = "rec_profile"]
    /\ loc' = [loc EXCEPT ![c] = [op |-> "get_recommendation", photo |-> photo,
                                  uid |-> SessionUid(session[c]),
                                  photo_path |-> saved_path(c, photo),
                                  profile_id |-> None]]
    /\ UNCHANGED <<users, profiles, recs, session, key, now, resp, net, log>>

\* if uid: INSERT INTO fashion_profiles
RecSaveProfile(c) ==
    /\ pc[c] = "rec_profile"
    /\ IF loc[c].uid # None
       THEN /\ profiles' = Append(profiles,
                                  [user_id |-> loc[c].uid,
                                   gender |-> "Not specified", age |-> "25", size |-> "M",
                                   culture_style |-> "Universal", dress_style |-> "Casual",
                                   photo_path |-> loc[c].photo_path])
            /\ loc' = [loc EXCEPT ![c].profile_id = Len(profiles) + 1]
       ELSE UNCHANGED <<profiles, loc>>
    /\ pc' = [pc EXCEPT ![c] = "rec_vision"]
    /\ UNCHANGED <<users, recs, uploads, session, key, now, resp, net, log>>

\* call_vision reads the file at photo_path and sends it; save_rec; the
\* response.  An external call is recorded with the image it carried.
RecComplete(c, vo, to, ro) ==
    LET comp  == call_vision(outfit_prompt(NoForm, TRUE), loc[c].photo_path, vo, to)
        saved == save_rec(loc[c].uid, loc[c].profile_id, "outfit", comp.text, ro)
    IN  /\ pc[c] = "rec_vision"
        /\ recs' = saved.recs
        /\ resp' = Response(c, "get_recommendation", 200,
                            [result |-> comp.text, photo_analyzed |-> TRUE])
        /\ net' = [k \in 1..Len(comp.calls) |->
                      IF comp.calls[k] = "vision"
                      THEN <<"vision", uploads[loc[c].photo_path]>>
                      ELSE <<comp.calls[k]>>]
        /\ log' = comp.log \o saved.log
        /\ pc' = [pc EXCEPT ![c] = "idle"]
        /\ loc' = [loc EXCEPT ![c] = [op |-> "none"]]
        /\ UNCHANGED <<users, profiles, uploads, session, key, now>>

-----------------------------------------------------------------------------
(* The store module (src/database.py): the same tables, written through   *)
(* functions that take their arguments as given.                           *)

\* hashlib.sha256(pw.encode()).hexdigest()
hash_password(pw) == [sha256 |-> pw]

\* create_user(name, phone, email, password): the INSERT, and what the
\* function returns: (True, uid), or (False, message) on an IntegrityError.
create_user(name, phone, email, password) ==
    IF UniqueViolation(users, OrNone(phone), OrNone(email))
    THEN [ok |-> FALSE, ret |-> [ok |-> FALSE, message |-> "Phone or email already registered."]]
    ELSE [ok |-> TRUE,
          row |-> UserRow(name, OrNone(phone), OrNone(email), hash_password(password)),
          ret |-> [ok |-> TRUE, uid |-> Len(users) + 1]]

\* A call of create_user by a program that imports the store module; no
\* request and no session are involved.
CreateUser(name, phone, email, password) ==
    LET r == create_user(name, phone, email, password) IN
    /\ users' = IF r.ok THEN Append(users, r.row) ELSE users
    /\ resp' = Response(0, "create_user", 0, r.ret)
    /\ net' = <<>>
    /\ log' = <<>>
    /\ UNCHANGED <<profiles, recs, uploads, session, key, now, pc, loc>>

-----------------------------------------------------------------------------
(* Specifications                                                          *)

Init ==
    /\ users = <<>>
    /\ profiles = <<>>
    /\ recs = <<>>
    /\ uploads = [f \in {} |-> "none"]
    /\ session = [c \in Clients |-> NoSession]
    /\ key \in BOOLEAN
    /\ now = 0
    /\ pc = Idle
    /\ loc = NoLocals
    /\ resp = Response(0, "none", 0, [none |-> TRUE])
    /\ net = <<>>
    /\ log = <<>>

InitKey == Init /\ key

\* Auth: every input of signup and login, from one client (the handlers
\* read no other client's session).
NextAuth ==
    /\ \E c \in {1} :
          \/ \E name \in NameIn, phone \in IdentIn, email \in {<<>>, <<"y">>}, pw \in PwIn :
                Signup(c, name, phone, email, pw)
          \/ \E ident \in IdentIn, pw \in PwIn : Login(c, ident, pw)
          \/ Logout(c)
          \/ ApiMe(c)
    /\ Bounded

SpecAuth == InitKey /\ [][NextAuth]_vars

\* Concurrent signups.
NextSignup ==
    /\ \E c \in Clients :
          \/ \E name \in {<<"A">>}, phone \in IdentIn, email \in IdentIn, pw \in {"", "p"} :
                SignupBegin(c, name, phone, email, pw)
          \/ SignupInsert(c)
    /\ Bounded

SpecSignup == InitKey /\ [][NextSignup]_vars

\* The two creation paths of a user row: the signup endpoint and the
\* store module's create_user.
NextStore ==
    /\ \/ \E name \in NameIn, phone \in IdentIn, email \in {<<>>, <<"y">>}, pw \in PwIn :
             Signup(1, name, phone, email, pw)
       \/ \E phone \in IdentIn, email \in {<<>>, <<"y">>}, pw \in {"", "p"} :
             CreateUser(<<"A">>, phone, email, pw)
    /\ Bounded

SpecStore == InitKey /\ [][NextStore]_vars

\* Inputs of the generation endpoints.
ProductIn == {NoForm, [product |-> <<" ">>], [product |-> <<"k", " ">>]}

\* What can go wrong while get_recommendation handles `photo`, as
\* <<po, pr, vo, to, ro>>: the first step that fails decides the rest, and
\* the vision service is asked only about an accepted photo.
OutfitEnv(photo) ==
    LET accepted == photo_accepted[photo]
    IN  {<<TRUE, FALSE, "ok", "ok", TRUE>>}
        \cup {<<FALSE, TRUE, "ok", "ok", TRUE>> : x \in {y \in {1} : accepted}}
        \cup {<<TRUE, TRUE, vo, to, ro>> :
                 vo \in IF accepted THEN VisionOutcomes ELSE {"ok"},
                 to \in TextOutcomes, ro \in BOOLEAN}

\* Sessions: a client signs up as two users, logs in and out, reads its
\* history and calls every generation endpoint, while a second client
\* logs in and out and reads its history.
NextSession ==
    /\ \/ \E c \in {1} :
          \/ \E phone \in {<<"x", " ">>, <<"y">>}, pw \in {"", "p"} :
                Signup(c, <<"A">>, phone, <<>>, pw)
          \/ \E ident \in {<<"x", " ">>, <<"y">>}, pw \in {"p", "q"} : Login(c, ident, pw)
          \/ Logout(c)
          \/ ApiHistory(c)
          \/ GetRecommendation(c, NoForm, NoPhoto, TRUE, TRUE, "ok", "ok", TRUE)
          \/ \E form \in ProductIn : GeneratePitch(c, form, "ok", TRUE)
          \/ \E ro \in BOOLEAN : LeadScore(c, NoForm, "ok", ro)
          \/ \E form \in ProductIn : GenerateCampaign(c, form, "ok", TRUE)
       \/ \E c \in {2} :
          \/ \E pw \in {"p", "q"} : Login(c, <<"y">>, pw)
          \/ Logout(c)
          \/ ApiHistory(c)
    /\ Bounded

SpecSession == InitKey /\ [][NextSession]_vars

\* Generation: the store holds one user; the client calls every
\* generation endpoint, with that user's session or without one, under
\* every outcome of the photo write, the profile write, the external
\* service and the recommendation write, with and without a credential.
UserA == UserRow(<<"A">>, <<"x">>, NULL, hashpw("p"))

InitGen ==
    /\ users = <<UserA>>
    /\ profiles = <<>>
    /\ recs = <<>>
    /\ uploads = [f \in {} |-> "none"]
    /\ \E s \in {NoSession, [user_id |-> 1, user_name |-> <<"A">>]} :
          session = [c \in Clients |-> IF c = 1 THEN s ELSE NoSession]
    /\ key \in BOOLEAN
    /\ now = 0
    /\ pc = Idle
    /\ loc = NoLocals
    /\ resp = Response(0, "none", 0, [none |-> TRUE])
    /\ net = <<>>
    /\ log = <<>>

GenEnv == TextOutcomes \X BOOLEAN

NextGen ==
    /\ \E c \in {1} :
          \/ \E photo \in PhotoIn : \E e \in OutfitEnv(photo) :
                GetRecommendation(c, NoForm, photo, e[1], e[2], e[3], e[4], e[5])
          \/ \E form \in ProductIn, e \in GenEnv : GeneratePitch(c, form, e[1], e[2])
          \/ \E e \in GenEnv : LeadScore(c, NoForm, e[1], e[2])
          \/ \E form \in ProductIn, e \in GenEnv : GenerateCampaign(c, form, e[1], e[2])
    /\ Bounded

SpecGen == InitGen /\ [][NextGen]_vars

\* Concurrent styling requests with photos: the store holds two users,
\* each client has the session of one of them or none.
UserB == UserRow(<<"B">>, NULL, <<"y">>, hashpw("q"))

InitUpload ==
    /\ users = <<UserA, UserB>>
    /\ profiles = <<>>
    /\ recs = <<>>
    /\ uploads = [f \in {} |-> "none"]
    /\ session \in [Clients -> {NoSession}]
                   \cup {[c \in Clients |->
                            [user_id |-> c, user_name |-> users[c].name]]}
    /\ key = TRUE
    /\ now = 0
    /\ pc = Idle
    /\ loc = NoLocals
    /\ resp = Response(0, "none", 0, [none |-> TRUE])
    /\ net = <<>>
    /\ log = <<>>

NextUpload ==
    /\ \E c \in Clients :
          \/ \E photo \in UploadIn : RecSavePhoto(c, photo)
          \/ RecSaveProfile(c)
          \/ \E vo \in {"ok", "http_error"} : RecComplete(c, vo, "ok", TRUE)
    /\ BoundedUpload

SpecUpload == InitUpload /\ [][NextUpload]_vars

\* History: two users and anonymous callers create rows while the clock
\* advances, and read their history.
NextHist ==
    /\ \/ \E c \in Clients :
             \/ \E phone \in {<<"x", " ">>, <<"y">>} : Signup(c, <<"A">>, phone, <<>>, "p")
             \/ Logout(c)
             \/ ApiHistory(c)
             \/ \E ro \in BOOLEAN : LeadScore(c, NoForm, "ok", ro)
       \/ Tick
    /\ BoundedHist

SpecHist == InitKey /\ [][NextHist]_vars

-----------------------------------------------------------------------------
(* Claims about signup and login (SpecAuth)                                *)

\* Row i answers the login query for identifier `ident` and password `pw`.
Answers(i, ident, pw) ==
    /\ users[i].phone = ident \/ users[i].email = ident
    /\ users[i].password = hashpw(pw)

\* C1 (as claimed): a login whose identifier is a stored user's phone or
\* email and whose password is that user's password succeeds and returns
\* that user's name.
C1_LoginReturnsSignupName ==
    [][resp'.op = "login" =>
          \A ident \in IdentIn, pw \in PwIn :
              Login(1, ident, pw) =>
                  \A i \in 1..Len(users) :
                      Answers(i, ident, pw) =>
                          /\ resp'.status = 200
                          /\ resp'.body.success
                          /\ resp'.body.name = users[i].name]_vars

\* The phone or the email a signup submits is already stored.
AlreadyStored(phone0, email0) ==
    \E i \in 1..Len(users) :
        \/ strip(phone0) # <<>> /\ users[i].phone = strip(phone0)
        \/ strip(email0) # <<>> /\ users[i].email = strip(email0)

SignupRefused ==
    /\ resp'.status = 400
    /\ resp'.body.success = FALSE
    /\ users' = users

\* C2: a signup whose phone or email is already stored is refused with
\* 400 and success=false, whatever its other fields are, and adds no user
\* row (a signup step that is not refused submitted nothing stored).
C2_DuplicateSignupRefused ==
    [][resp'.op = "signup" =>
          \/ SignupRefused
          \/ \A name \in NameIn, phone \in IdentIn, email \in IdentIn, pw \in PwIn :
                Signup(1, name, phone, email, pw) => ~AlreadyStored(phone, email)]_vars

\* C2 witness: a signup was refused as a duplicate.
C2_Witness ==
    /\ resp.op = "signup"
    /\ resp.status = 400
    /\ resp.body.message = AlreadyRegistered
    /\ Len(users) >= 1

\* C4 (as claimed): login succeeds exactly when a row's phone or email
\* equals the identifier as submitted and its hash is the hash of the
\* submitted password; otherwise it answers 401 with success=false.
C4_LoginIffSubmittedIdentifier ==
    [][resp'.op = "login" =>
          \A ident \in IdentIn, pw \in PwIn :
              Login(1, ident, pw) =>
                  IF \E i \in 1..Len(users) : Answers(i, ident, pw)
                  THEN resp'.status = 200 /\ resp'.body.success
                  ELSE resp'.status = 401 /\ resp'.body.success = FALSE]_vars

\* C4 (amended): the same with the identifier trimmed of surrounding
\* whitespace, as the handler trims it before the query.
C4_LoginIffTrimmedIdentifier ==
    [][resp'.op = "login" =>
          \A ident \in IdentIn, pw \in PwIn :
              Login(1, ident, pw) =>
                  IF \E i \in 1..Len(users) : Answers(i, strip(ident), pw)
                  THEN resp'.status = 200 /\ resp'.body.success
                  ELSE resp'.status = 401 /\ resp'.body.success = FALSE]_vars

\* C4 witness: a login succeeded while another password is also stored.
C4_Witness ==
    /\ resp.op = "login"
    /\ resp.status = 200
    /\ \E i \in 1..Len(users) : users[i].password # hashpw("p")

-----------------------------------------------------------------------------
(* Claims about concurrent signups (SpecSignup)                            *)

UniqueRows ==
    \A i, j \in 1..Len(users) :
        i # j =>
            /\ users[i].phone = NULL \/ users[i].phone # users[j].phone
            /\ users[i].email = NULL \/ users[i].email # users[j].email

\* C3: whatever the interleaving of signups in flight, no two rows share a
\* non-null phone or a non-null email, and a signup succeeds only if no
\* row already had its phone or its email: of two with the same phone or
\* email at most one succeeds.
C3_UniquePhoneAndEmail ==
    [][/\ UniqueRows'
       /\ \A c \in Clients :
             (pc[c] = "signup_insert" /\ pc'[c] = "idle" /\ resp'.status = 200) =>
                 ~AlreadyStored(loc[c].phone, loc[c].email)]_vars

\* C3 witness: a signup succeeded while another one with the same phone
\* was in flight.
C3_Witness ==
    \E c \in Clients :
        /\ pc[c] = "signup_insert"
        /\ resp.op = "signup" /\ resp.status = 200 /\ resp.client # c
        /\ users[Len(users)].phone = strip(loc[c].phone)

-----------------------------------------------------------------------------
(* Claims about the session (SpecSession)                                  *)

\* C5: a successful signup leaves the client's session with the id of the
\* row it inserted, a successful login with the id of a row that answers
\* its credentials, a logout with none, and every other request (a
\* refused signup, a failed login, a generation request, a history read,
\* any request of another client) leaves it as it was; the history
\* endpoint answers 401 exactly when the session holds no user id.
C5_SessionFollowsAuth ==
    [][\A c \in Clients :
          /\ IF resp'.client = c /\ resp'.op = "signup" /\ resp'.status = 200
             THEN /\ Len(users') = Len(users) + 1
                  /\ SessionUid(session'[c]) = Len(users')
             ELSE IF resp'.client = c /\ resp'.op = "login" /\ resp'.status = 200
             THEN /\ SessionUid(session'[c]) \in 1..Len(users)
                  /\ \A ident \in IdentIn, pw \in PwIn :
                        Login(c, ident, pw) =>
                            \E i \in 1..Len(users) :
                                /\ Answers(i, strip(ident), pw)
                                /\ users[i].name = resp'.body.name
                                /\ SessionUid(session'[c]) = i
             ELSE IF resp'.client = c /\ resp'.op = "logout"
             THEN SessionUid(session'[c]) = None
             ELSE session'[c] = session[c]
          /\ (resp'.client = c /\ resp'.op = "history") =>
                IF SessionUid(session[c]) = None
                THEN resp'.status = 401
                ELSE resp'.status = 200]_vars

\* C5 witness: a client that signed up as two users and logged out is
\* refused its history.
C5_Witness ==
    /\ resp.op = "history"
    /\ resp.status = 401
    /\ Len(users) = 2
    /\ session[1] = NoSession

-----------------------------------------------------------------------------
(* Claims about the history endpoint (SpecHist)                            *)

\* The ids of the rows of user `uid`, the most recently created first.
NewestFirst(uid) ==
    LET ids == {i \in 1..Len(recs) : recs[i].user_id = uid}
    IN  [k \in 1..Cardinality(ids) |->
            CHOOSE i \in ids : Cardinality({j \in ids : j > i}) = k - 1]

\* C6 (as claimed): with a session for user u the history is the
\* min(20, n) most recently created rows of u, newest first, also when
\* rows of u share a timestamp.
C6_HistoryNewestFirst ==
    [][(resp'.op = "history" /\ resp'.status = 200) =>
          LET rows == Take(NewestFirst(SessionUid(session[resp'.client])), HistoryLimit)
          IN  resp'.body.history = [k \in 1..Len(rows) |-> HistoryItem(rows[k])]]_vars

-----------------------------------------------------------------------------
(* Claims about the generation endpoints (SpecGen)                         *)

GenOps == {"get_recommendation", "generate_pitch", "lead_score", "generate_campaign"}

RequestType(op) ==
    CASE op = "get_recommendation" -> "outfit"
      [] op = "generate_pitch"     -> "pitch"
      [] op = "lead_score"         -> "lead_score"
      [] op = "generate_campaign"  -> "campaign"

Range(sq) == {sq[k] : k \in 1..Len(sq)}

\* The response carries text that the completion client returned: not a
\* prompt for input, not the message of a caught exception.
CompletionResult(r) ==
    /\ r.op \in GenOps
    /\ r.status = 200
    /\ r.body.result \notin {PleaseEnterPitch, PleaseEnterCampaign}
    /\ r.body.result \notin {ErrorText(e) : e \in {"upload", "profile", "completion", "save"}}

\* The step appends one row, of the request's type, with the session's
\* user id and the result returned.
AppendsTheRow ==
    /\ Len(recs') = Len(recs) + 1
    /\ SubSeq(recs', 1, Len(recs)) = recs
    /\ recs'[Len(recs')].request_type = RequestType(resp'.op)
    /\ recs'[Len(recs')].user_id = SessionUid(session[resp'.client])
    /\ recs'[Len(recs')].ai_response = resp'.body.result

RowsKept ==
    /\ Len(recs') >= Len(recs)
    /\ SubSeq(recs', 1, Len(recs)) = recs

\* C7 (as claimed): every generation request that returns text of the
\* completion client adds exactly one row with the request's type, the
\* session's user id and the result; no step changes or removes a row.
C7_ExactlyOneRow ==
    [][/\ CompletionResult(resp') => AppendsTheRow
       /\ RowsKept]_vars

\* C7 (amended): the same, except that a request whose write of the row
\* fails adds no row.
C7_OneRowUnlessWriteFails ==
    [][/\ CompletionResult(resp') =>
             IF DbError \in Range(log') THEN recs' = recs ELSE AppendsTheRow
       /\ RowsKept]_vars

\* C7 witness: a timed-out completion was returned to a logged-in caller
\* and stored as that user's row.
C7_Witness ==
    /\ resp.op = "lead_score"
    /\ resp.body.result = TimedOut
    /\ Len(recs) >= 1
    /\ recs[Len(recs)].ai_response = TimedOut
    /\ recs[Len(recs)].user_id = 1
    /\ recs[Len(recs)].request_type = "lead_score"

\* C8: in every state, each generation handler answers a request whose
\* recommendation write fails with the response it gives when the write
\* succeeds, and leaves the table as it was.
C8_WriteFailureSwallowed ==
    \A c \in {1} :
        /\ \A photo \in PhotoIn : \A e \in OutfitEnv(photo) :
              LET f == get_recommendation(c, NoForm, photo, e[1], e[2], e[3], e[4], FALSE)
                  t == get_recommendation(c, NoForm, photo, e[1], e[2], e[3], e[4], TRUE)
              IN  f.resp = t.resp /\ f.recs = recs
        /\ \A form \in ProductIn, to \in TextOutcomes :
              /\ generate_pitch(c, form, to, FALSE).resp = generate_pitch(c, form, to, TRUE).resp
              /\ generate_pitch(c, form, to, FALSE).recs = recs
              /\ generate_campaign(c, form, to, FALSE).resp
                    = generate_campaign(c, form, to, TRUE).resp
              /\ generate_campaign(c, form, to, FALSE).recs = recs
        /\ \A to \in TextOutcomes :
              /\ lead_score(c, NoForm, to, FALSE).resp = lead_score(c, NoForm, to, TRUE).resp
              /\ lead_score(c, NoForm, to, FALSE).recs = recs

\* C8 witness: a recommendation write failed and the request was answered
\* 200 with the completion's text and the photo flag.
C8_Witness ==
    /\ DbError \in Range(log)
    /\ resp.op = "get_recommendation"
    /\ resp.status = 200
    /\ resp.body.result = VisionReply[<<"outfit", "+", "photo">>]
    /\ resp.body.photo_analyzed
    /\ recs = <<>>

\* C9: every response of a generation endpoint is a 200 with a text
\* result, whichever step failed.
C9_NeverServerError ==
    resp.op \in GenOps =>
        /\ resp.status = 200
        /\ "result" \in DOMAIN resp.body

\* C9 witness: the photo write failed and the answer is a 200 with text.
C9_Witness ==
    /\ resp.op = "get_recommendation"
    /\ resp.status = 200
    /\ resp.body.result = ErrorText("upload")

\* C10: with a credential, a vision completion that fails otherwise than
\* by a timeout raises nothing and returns the text that the text
\* completion returns for the same prompt, and that text is the result of
\* the request that attached the photo.
C10_VisionFallsBackToText ==
    key =>
        \A has_photo \in BOOLEAN, vo \in VisionOutcomes \ {"ok", "timeout"},
           to \in TextOutcomes :
            LET prompt == outfit_prompt(NoForm, has_photo)
                v == call_vision(prompt, upload_path[PhotoPng], vo, to)
            IN  /\ ~v.raised
                /\ v.text = call_text(prompt, to).text
                /\ has_photo =>
                      \A ro \in BOOLEAN :
                          get_recommendation(1, NoForm, PhotoPng, TRUE, TRUE, vo, to, ro)
                              .resp.body.result = call_text(prompt, to).text

\* C10 witness: the uploaded image could not be read, no vision request
\* was sent, and the caller got the text completion of the photo prompt.
C10_Witness ==
    /\ key
    /\ resp.op = "get_recommendation"
    /\ VisionFailed \in Range(log)
    /\ net = <<"text">>
    /\ resp.body.result = TextReply[<<"outfit", "+", "photo">>]

-----------------------------------------------------------------------------
(* Claims about the completion client (SpecGen)                            *)

\* C11 (as claimed): with a credential, a request whose external call
\* times out, in text mode or in vision mode, is answered with the
\* timed-out message, and that one call is the only external call made
\* for it.
C11_TimeoutIsTerminal ==
    [][/\ resp'.op = "get_recommendation" =>
             \A photo \in PhotoIn : \A e \in OutfitEnv(photo) :
                 (key /\ GetRecommendation(1, NoForm, photo, e[1], e[2], e[3], e[4], e[5])) =>
                     /\ (photo_accepted[photo] /\ e[3] = "timeout") =>
                           resp'.body.result = TimedOut /\ net' = <<"vision">>
                     /\ (~photo_accepted[photo] /\ e[4] = "timeout") =>
                           resp'.body.result = TimedOut /\ net' = <<"text">>
       /\ resp'.op = "lead_score" =>
             \A ro \in BOOLEAN :
                 (key /\ LeadScore(1, NoForm, "timeout", ro)) =>
                     resp'.body.result = TimedOut /\ net' = <<"text">>]_vars

\* C12: without a credential both completions return the advisory for
\* every prompt, whatever the service or the image file would answer,
\* make no external call and print no failure of reading the image; no
\* generation request makes an external call.
C12_AdvisoryWithoutCredential ==
    ~key =>
        /\ \A has_photo \in BOOLEAN, vo \in VisionOutcomes, to \in TextOutcomes :
              LET prompt == outfit_prompt(NoForm, has_photo)
                  t == call_text(prompt, to)
                  v == call_vision(prompt, upload_path[PhotoPng], vo, to)
              IN  /\ t.text = Advisory /\ ~t.raised /\ t.calls = <<>>
                  /\ v.text = Advisory /\ ~v.raised /\ v.calls = <<>> /\ v.log = <<>>
        /\ resp.op \in GenOps =>
              /\ net = <<>>
              /\ resp.body.result \in {Advisory, PleaseEnterPitch, PleaseEnterCampaign,
                                       ErrorText("upload"), ErrorText("profile")}

\* C12 witness: without a credential a request with an accepted photo was
\* answered with the advisory and no external call.
C12_Witness ==
    /\ ~key
    /\ resp.op = "get_recommendation"
    /\ resp.body.result = Advisory
    /\ resp.body.photo_analyzed
    /\ net = <<>>
    /\ log = <<>>

\* C13: in every state, a pitch or campaign request whose product is
\* empty after trimming is answered with the request for input, makes no
\* external call and leaves the tables and the uploads as they are; a
\* response that asks for input comes with no external call.
ShortCircuits(o, msg) ==
    /\ o.resp.status = 200
    /\ o.resp.body.result = msg
    /\ o.net = <<>>
    /\ o.log = <<>>
    /\ o.recs = recs
    /\ o.profiles = profiles
    /\ o.uploads = uploads

C13_EmptyProductShortCircuits ==
    /\ \A form \in ProductIn, e \in GenEnv :
          strip(FormGet(form, "product", <<>>)) = <<>> =>
              /\ ShortCircuits(generate_pitch(1, form, e[1], e[2]), PleaseEnterPitch)
              /\ ShortCircuits(generate_campaign(1, form, e[1], e[2]), PleaseEnterCampaign)
    /\ (resp.op \in GenOps /\ resp.body.result \in {PleaseEnterPitch, PleaseEnterCampaign})
          => net = <<>>

\* C13 witness: a pitch request without a product was answered with the
\* request for input, with a credential configured and no row written.
C13_Witness ==
    /\ key
    /\ resp.op = "generate_pitch"
    /\ resp.body.result = PleaseEnterPitch
    /\ net = <<>>
    /\ recs = <<>>

-----------------------------------------------------------------------------
(* Claims about anonymous callers (SpecSession)                            *)

\* C14: a generation request of a client without a session is answered
\* 200 with a result, and the row it writes has no user id; every row a
\* history response returns has the user id of the session that asked,
\* so none of them is a row without a user id.
C14_AnonymousRowsUnlisted ==
    [][/\ (resp'.op \in GenOps /\ SessionUid(session[resp'.client]) = None) =>
             /\ resp'.status = 200
             /\ "result" \in DOMAIN resp'.body
             /\ recs' # recs =>
                   /\ recs' = Append(recs, recs'[Len(recs')])
                   /\ recs'[Len(recs')].user_id = None
       /\ (resp'.op = "history" /\ resp'.status = 200) =>
             \A k \in 1..Len(resp'.body.history) :
                 LET i == resp'.body.history[k].id
                 IN  /\ i \in 1..Len(recs)
                     /\ recs[i].user_id # None
                     /\ recs[i].user_id = SessionUid(session[resp'.client])]_vars

\* C14 witness: the store holds an anonymous caller's row, and a user who
\* then read the history was shown no row.
C14_Witness ==
    /\ resp.op = "history"
    /\ resp.status = 200
    /\ resp.body.history = <<>>
    /\ \E i \in 1..Len(recs) : recs[i].user_id = None /\ recs[i].request_type = "outfit"

-----------------------------------------------------------------------------
(* Claims about the photo of a styling request (SpecGen)                   *)

\* C15: in every state, a get_recommendation request that attaches b.exe
\* or a file without extension does what the same request without a
\* photo does, whether or not the photo write, the profile write and the
\* reading of the image would fail, under every outcome of the service:
\* same response, same rows, same external calls; nothing is written to
\* the uploads, no vision call is made, and unless the profile write
\* fails the answer is the text completion with photo_analyzed false.
C15_RejectedFileIsNoPhoto ==
    \A photo \in {PhotoExe, PhotoNoExt} :
        \A po \in BOOLEAN, pr \in BOOLEAN, vo \in {"ok", "unreadable"},
           to \in TextOutcomes :
            LET o == get_recommendation(1, NoForm, photo, po, pr, vo, to, TRUE)
                n == get_recommendation(1, NoForm, NoPhoto, po, pr, vo, to, TRUE)
            IN  /\ o = n
                /\ o.uploads = uploads
                /\ o.net = call_text(outfit_prompt(NoForm, FALSE), to).calls \/ o.net = <<>>
                /\ (pr \/ SessionUid(session[1]) = None) =>
                      /\ o.resp.status = 200
                      /\ o.resp.body.photo_analyzed = FALSE
                      /\ o.resp.body.result = call_text(outfit_prompt(NoForm, FALSE), to).text
                      /\ o.net = call_text(outfit_prompt(NoForm, FALSE), to).calls

\* C15 witness: a styling request was answered in text mode, with
\* photo_analyzed false, and the uploads are empty.
C15_Witness ==
    /\ key
    /\ resp.op = "get_recommendation"
    /\ resp.status = 200
    /\ "photo_analyzed" \in DOMAIN resp.body
    /\ ~resp.body.photo_analyzed
    /\ resp.body.result = TextReply[<<"outfit">>]
    /\ net = <<"text">>
    /\ DOMAIN uploads = {}

-----------------------------------------------------------------------------
(* Claims about the creation of user rows (SpecStore)                      *)

\* C16 (as claimed): every user row, whichever path created it, has a
\* phone or an email, and the hash of a password that is not empty.
C16_UserRowsWellFormed ==
    \A i \in 1..Len(users) :
        /\ users[i].phone # NULL \/ users[i].email # NULL
        /\ users[i].password # hashpw("")

-----------------------------------------------------------------------------
(* Claims about the photo flag and the profile rows (SpecGen)              *)

\* C17 (as claimed): the photo_analyzed flag of a styling response is
\* true exactly when its result is the reply of a vision completion;
\* it is false for text-mode output, the fallback after a vision
\* failure and the advisory included.
C17_FlagIffVisionResult ==
    (resp.op = "get_recommendation" /\ "photo_analyzed" \in DOMAIN resp.body) =>
        (resp.body.photo_analyzed <=>
            /\ net = <<"vision">>
            /\ resp.body.result = VisionReply[<<"outfit", "+", "photo">>])

\* C18 (as claimed): a styling request that runs to its normal response,
\* with or without a session, adds exactly one profile row, with the
\* session's user id or none, and the recommendation row it writes
\* carries that profile's id; the other generation requests add no
\* profile and write rows without profile id.
C18_OneProfilePerStylingRequest ==
    [][/\ (resp'.op = "get_recommendation" /\ "photo_analyzed" \in DOMAIN resp'.body) =>
             /\ Len(profiles') = Len(profiles) + 1
             /\ SubSeq(profiles', 1, Len(profiles)) = profiles
             /\ profiles'[Len(profiles')].user_id = SessionUid(session[resp'.client])
             /\ recs' # recs => recs'[Len(recs')].profile_id = Len(profiles')
       /\ resp'.op \in {"generate_pitch", "lead_score", "generate_campaign"} =>
             /\ profiles' = profiles
             /\ recs' # recs => recs'[Len(recs')].profile_id = None]_vars

-----------------------------------------------------------------------------
(* Claims about concurrent uploads (SpecUpload)                            *)

\* C19 (as claimed): when a styling request in flight completes, the
\* image its vision call carried is the image that request uploaded, and
\* the file at the photo_path of the profile it created holds that image.
C19_OwnImageAnalysed ==
    [][\A c \in Clients :
          (pc[c] = "rec_vision" /\ pc'[c] = "idle") =>
              /\ \A k \in 1..Len(net') :
                    net'[k][1] = "vision" => net'[k][2] = loc[c].photo.data
              /\ loc[c].profile_id # None =>
                    uploads[profiles[loc[c].profile_id].photo_path] = loc[c].photo.data]_vars

-----------------------------------------------------------------------------
(* Claims about the recommendation rows (SpecGen)                          *)

\* C20: every recommendation row has one of the four request types and
\* an ai_response that is text, never NULL, whichever outcome the
\* completion had.
C20_RowsTypedAndAnswered ==
    \A i \in 1..Len(recs) :
        /\ recs[i].request_type \in {"outfit", "pitch", "lead_score", "campaign"}
        /\ recs[i].ai_response # NULL
        /\ recs[i].ai_response \in
              {Advisory, TimedOut} \cup {ApiError(e) : e \in TextOutcomes}
              \cup {TextReply[t] : t \in PromptTags} \cup {VisionReply[t] : t \in PromptTags}

\* C20 witness: the completion failed with an error and the row holds the
\* error text.
C20_Witness ==
    \E i \in 1..Len(recs) :
        /\ recs[i].request_type = "campaign"
        /\ recs[i].ai_response = ApiError("http_error")

-----------------------------------------------------------------------------
(* Claims about the login query (SpecAuth)                                 *)

\* C21 (as claimed): in every state, for every identifier and password at
\* most one user row matches the login query, so no user's phone is
\* another user's email with the same password.
C21_AtMostOneLoginMatch ==
    \A ident \in {strip(x) : x \in IdentIn}, pw \in PwIn :
        Cardinality(LoginMatches(users, ident, hashpw(pw))) <= 1

====
